---- MODULE Spec2Model ----
(***************************************************************************)
(* A/B testing harness of the underwriting demo: ABTestEngine (ab_engine), *)
(* UnderwritingEngine.evaluate_applicant (core/engine) and the             *)
(* insufficient-data paths of StatisticalAnalyzer (statistical_analysis).  *)
(*                                                                         *)
(* Floats are exact rationals <<numerator, denominator>>.  Optional values *)
(* are the string "None" (error) or a sequence of length 0 or 1.           *)
(* TestResult keeps the fields the engine reads back (applicant_id,        *)
(* variant_id, decision, reason, processing_time_ms, error); the display   *)
(* lists triggered_rules / risk_factors and the timestamp are left out.    *)
(***************************************************************************)
EXTENDS Integers, Sequences, FiniteSets, TLC

VARIABLES
    loadable,            \* rule files that open() and json.load() accept (environment)
    test_configurations, \* ABTestEngine.test_configurations : variant_id -> TestConfiguration
    engines,             \* ABTestEngine.engines : variant_id -> UnderwritingEngine
    test_results,        \* ABTestEngine.test_results : the result log
    pc,                  \* "idle", or "batch" while run_batch_comparison is in its loop
    batch,               \* frame of the running run_batch_comparison
    last_call,           \* the last finished call: operation, arguments, outcome
    pair_out,            \* <<>> or <<(result_a, result_b)>> returned by run_single_comparison
    batch_out,           \* list returned by run_batch_comparison
    metrics_out,         \* <<>> or <<ComparisonMetrics>> returned by calculate_comparison_metrics
    stat_out,            \* <<>> or <<StatisticalTest>> returned by a StatisticalAnalyzer test
    statistical_analyzer, \* StatisticalAnalyzer : confidence_level, alpha
    business_calculator, \* BusinessImpactCalculator : monthly_applications
    llm_response,        \* the text of the collaborator's response handed to the parser
    result_out,          \* <<>> or <<UnderwritingResult>> returned by _parse_llm_response
    impact_out,          \* <<>> or <<BusinessImpactAnalysis>> returned by calculate_impact
    interpret_call       \* arguments of an _interpret_* call and the sentence it returned

vars == <<loadable, test_configurations, engines, test_results, pc, batch,
          last_call, pair_out, batch_out, metrics_out, stat_out,
          statistical_analyzer, business_calculator, llm_response, result_out, impact_out,
          interpret_call>>

\* The fields of the runner's analyzer, calculator and parser.
runner_vars == <<statistical_analyzer, business_calculator, llm_response, result_out, impact_out,
                 interpret_call>>

-----------------------------------------------------------------------------
(* Bounds *)

MaxBatch == 2
MaxLog == 3
MaxLines == 2
MaxWords == 2
MaxSample == 2

-----------------------------------------------------------------------------
(* Values *)

None == "None"

ACCEPT == "accept"
DENY == "deny"
ADJUDICATE == "adjudicate"
UnderwritingDecision == {ACCEPT, DENY, ADJUDICATE}

StdFile == "underwriting_rules_standard.json"
ConFile == "underwriting_rules_conservative.json"
LibFile == "underwriting_rules_liberal.json"
CustomFile == "custom_rules.json"
RuleFiles == {StdFile, ConFile, LibFile, CustomFile}

\* File systems the program is started in.
Environments == {RuleFiles, {StdFile, ConFile}}

TestConfiguration(id, file, prompt) ==
    [variant_id |-> id, rules_file |-> file, prompt_template |-> prompt]

\* The three configurations run_single_comparison registers itself.
BuiltinStandard == TestConfiguration("underwriting_rules_standard", StdFile, None)
BuiltinConservative == TestConfiguration("underwriting_rules_conservative", ConFile, None)
BuiltinLiberal == TestConfiguration("underwriting_rules_liberal", LibFile, None)

\* Configurations a caller registers: a prompt variant, the same identifier
\* with another rule file, the same identifier without a rule file.
CallerConfigurations ==
    { TestConfiguration("custom", CustomFile, "custom_prompt"),
      TestConfiguration("custom", StdFile, None),
      TestConfiguration("custom", "", None) }

\* The (variant_a, variant_b) pairs callers pass to the comparison operations.
CallPairs ==
    { <<"standard", "underwriting_rules_liberal">>,
      <<"underwriting_rules_standard", "underwriting_rules_liberal">>,
      <<"underwriting_rules_liberal", "underwriting_rules_liberal">>,
      <<"custom", "underwriting_rules_liberal">>,
      <<"underwriting_rules_liberal", "custom">> }

Applicant(id, history) == [applicant_id |-> id, has_history |-> history]

\* APP2's primary driver has violations or claims, the others a clean record.
Applicants == {Applicant("APP1", FALSE), Applicant("APP2", TRUE), Applicant("APP3", FALSE)}

Line(label, words) == [label |-> label, words |-> words]

RespAccept == << Line("Decision", <<"ACCEPT">>), Line("Primary Reason", <<"clean">>) >>
RespDeny == << Line("Decision", <<"deny">>), Line("Primary Reason", <<"dui">>) >>

\* What one round trip to the LLM collaborator does: the response text or an
\* exception, and the wall-clock time the evaluation takes.
LLMOutcomes ==
    { [kind |-> "raise", response |-> <<>>, ms |-> 250],
      [kind |-> "response", response |-> RespAccept, ms |-> 100],
      [kind |-> "response", response |-> RespDeny, ms |-> 250] }

EmptyMap == [x \in {} |-> None]

NoCall == [op |-> "none", status |-> "ok", exc |-> None, va |-> None, vb |-> None,
           llm |-> <<>>, input |-> <<>>, registered |-> FALSE, again |-> FALSE]

NoInterpretation == [args |-> <<>>, text |-> <<>>]

NoBatch == [applicants |-> <<>>, va |-> None, vb |-> None, i |-> 0, results |-> <<>>,
            registered |-> FALSE, llm |-> <<>>]

-----------------------------------------------------------------------------
(* UnderwritingEngine (core/engine.py) *)

\* str.upper() on the words the responses use.
Upper(w) ==
    CASE w = "accept" -> "ACCEPT"
      [] w = "deny" -> "DENY"
      [] w = "adjudicate" -> "ADJUDICATE"
      [] w = "Adjudicate" -> "ADJUDICATE"
      [] w = "unacceptable" -> "UNACCEPTABLE"
      [] w = "maybe" -> "MAYBE"
      [] OTHER -> w

\* token in w, as substrings: a word carries a token it is or it contains.
Contains(w, token) == w = token \/ (w = "UNACCEPTABLE" /\ token = "ACCEPT")

\* 'TOKEN' in decision_text, for a text given as its words.
InText(token, words) == \E k \in 1..Len(words) : Contains(Upper(words[k]), token)

DefaultReason == <<"Unable to parse LLM response">>

\* Faulty variant: the first word that carries a token decides.
DecisionOfLine_first_word(words, decision) ==
    LET ks == {k \in 1..Len(words) :
                  \E t \in {"ACCEPT", "DENY", "ADJUDICATE"} : Contains(Upper(words[k]), t)}
    IN IF ks = {} THEN decision
       ELSE LET w == Upper(words[CHOOSE k \in ks : \A j \in ks : k <= j])
            IN IF Contains(w, "ACCEPT") THEN ACCEPT
               ELSE IF Contains(w, "DENY") THEN DENY
               ELSE ADJUDICATE

\* Faulty variant: a line that names no decision sets ADJUDICATE.
DecisionOfLine_reset(words, decision) ==
    IF InText("ACCEPT", words) THEN ACCEPT
    ELSE IF InText("DENY", words) THEN DENY
    ELSE ADJUDICATE

\* The decision a 'Decision:' line sets, the current one when it names none.
DecisionOfLine(words, decision) ==
    IF InText("ACCEPT", words) THEN ACCEPT
    ELSE IF InText("DENY", words) THEN DENY
    ELSE IF InText("ADJUDICATE", words) THEN ADJUDICATE
    ELSE decision

RECURSIVE ParseLines(_, _, _, _)
ParseLines(lines, k, decision, reason) ==
    IF k > Len(lines) THEN [decision |-> decision, reason |-> reason]
    ELSE IF lines[k].label = "Decision"
         THEN ParseLines(lines, k + 1, DecisionOfLine(lines[k].words, decision), reason)
    ELSE IF lines[k].label = "Primary Reason"
         THEN ParseLines(lines, k + 1, decision, lines[k].words)
    ELSE ParseLines(lines, k + 1, decision, reason)

UnderwritingResult(id, decision, reason) ==
    [applicant_id |-> id, decision |-> decision, reason |-> reason]

\* Faulty variant: the decision before the first line is DENY.
parse_llm_response_default_deny(response_text, applicant_id) ==
    LET p == ParseLines(response_text, 1, DENY, DefaultReason)
    IN UnderwritingResult(applicant_id, p.decision, p.reason)

parse_llm_response(response_text, applicant_id) ==
    LET p == ParseLines(response_text, 1, ADJUDICATE, DefaultReason)
    IN UnderwritingResult(applicant_id, p.decision, p.reason)

\* _format_applicant_data reads violation.date and claim.date, attributes the
\* Violation and Claim models do not have: it raises for a driver with history.
format_applicant_data(applicant) ==
    IF applicant.has_history THEN [status |-> "raise", exc |-> "AttributeError"]
    ELSE [status |-> "ok", exc |-> None]

\* The number of collaborator round trips evaluate_applicant makes.
llm_calls(applicant) == IF format_applicant_data(applicant).status = "ok" THEN 1 ELSE 0

\* The except branch: an UnderwritingResult, which has no error field.
SystemErrorResult(applicant, exc) ==
    UnderwritingResult(applicant.applicant_id, ADJUDICATE, <<"System error:", exc>>)

\* evaluate_applicant: [status, exc, value]; the try/except lets nothing out.
evaluate_applicant(engine, applicant, llm) ==
    LET f == format_applicant_data(applicant)
    IN IF f.status = "raise"
       THEN [status |-> "ok", exc |-> None, value |-> SystemErrorResult(applicant, f.exc)]
       ELSE IF llm.kind = "raise"
       THEN [status |-> "ok", exc |-> None, value |-> SystemErrorResult(applicant, "LLMError")]
       ELSE [status |-> "ok", exc |-> None,
             value |-> parse_llm_response(llm.response, applicant.applicant_id)]

\* UnderwritingEngine.__init__: _load_rules raises for a file that cannot be loaded.
UnderwritingEngine(rules_file) ==
    IF rules_file \in loadable
    THEN [status |-> "ok", exc |-> None,
          value |-> [rules_file |-> rules_file, prompt_template |-> "default"]]
    ELSE [status |-> "raise", exc |-> "FileNotFoundError",
          value |-> [rules_file |-> rules_file, prompt_template |-> "default"]]

-----------------------------------------------------------------------------
(* ABTestEngine (testing/ab_engine.py) *)

TestResult(applicant_id, variant_id, decision, reason, ms, error) ==
    [applicant_id |-> applicant_id, variant_id |-> variant_id, decision |-> decision,
     reason |-> reason, processing_time_ms |-> ms, error |-> error]

\* The engine's three fields as one value.
EngineState(cfg, eng, log) == [cfg |-> cfg, eng |-> eng, log |-> log]

\* ABTestEngine.__init__
ABTestEngineInit == EngineState(EmptyMap, EmptyMap, <<>>)

\* register_test_configuration: the configuration is stored first, the engine
\* after its rule file loaded; [status, exc, st].
register_test_configuration(st, config) ==
    LET cfg1 == (config.variant_id :> config) @@ st.cfg
    IN IF config.rules_file = ""
       THEN [status |-> "ok", exc |-> None, st |-> EngineState(cfg1, st.eng, st.log)]
       ELSE LET e == UnderwritingEngine(config.rules_file)
            IN IF e.status = "raise"
               THEN [status |-> "raise", exc |-> e.exc,
                     st |-> EngineState(cfg1, st.eng, st.log)]
               ELSE LET engine == IF config.prompt_template # None
                                  THEN [e.value EXCEPT !.prompt_template = config.prompt_template]
                                  ELSE e.value
                    IN [status |-> "ok", exc |-> None,
                        st |-> EngineState(cfg1, (config.variant_id :> engine) @@ st.eng, st.log)]

\* variant_map.get(v, v)
variant_map(v) ==
    CASE v = "standard" -> "underwriting_rules_standard"
      [] v = "conservative" -> "underwriting_rules_conservative"
      [] v = "liberal" -> "underwriting_rules_liberal"
      [] OTHER -> v

\* One pass of the loop body of run_single_comparison for a registered variant.
evaluate_variant(st, applicant, variant_id, llm) ==
    LET r == evaluate_applicant(st.eng[variant_id], applicant, llm)
    IN IF r.status = "ok"
       THEN TestResult(applicant.applicant_id, variant_id, r.value.decision,
                       r.value.reason, llm.ms, None)
       ELSE TestResult(applicant.applicant_id, variant_id, ADJUDICATE,
                       <<"Error:", r.exc>>, llm.ms, r.exc)

\* Faulty variant: variant B is evaluated and logged before variant A.
comparison_loop_b_first(st, applicant, a, b, llm_a, llm_b) ==
    IF b \notin DOMAIN st.eng \/ a \notin DOMAIN st.eng
    THEN [status |-> "raise", exc |-> "ValueError", st |-> st, results |-> <<>>]
    ELSE LET rb == evaluate_variant(st, applicant, b, llm_b)
             ra == evaluate_variant(st, applicant, a, llm_a)
         IN [status |-> "ok", exc |-> None,
             st |-> EngineState(st.cfg, st.eng, st.log \o <<rb, ra>>),
             results |-> <<ra, rb>>]

\* The for loop of run_single_comparison over [variant_a, variant_b]:
\* [status, exc, st, results].
comparison_loop(st, applicant, a, b, llm_a, llm_b) ==
    IF a \notin DOMAIN st.eng
    THEN [status |-> "raise", exc |-> "ValueError", st |-> st, results |-> <<>>]
    ELSE LET ra == evaluate_variant(st, applicant, a, llm_a)
             st1 == EngineState(st.cfg, st.eng, Append(st.log, ra))
         IN IF b \notin DOMAIN st1.eng
            THEN [status |-> "raise", exc |-> "ValueError", st |-> st1, results |-> <<ra>>]
            ELSE LET rb == evaluate_variant(st1, applicant, b, llm_b)
                     st2 == EngineState(st1.cfg, st1.eng, Append(st1.log, rb))
                 IN [status |-> "ok", exc |-> None, st |-> st2, results |-> <<ra, rb>>]

\* run_single_comparison: self.__init__(), the three registrations, the
\* variant_map lookups, the loop; [status, exc, st, results].
run_single_comparison(st, applicant, variant_a, variant_b, llm_a, llm_b) ==
    LET s0 == ABTestEngineInit
        r1 == register_test_configuration(s0, BuiltinStandard)
        r2 == register_test_configuration(r1.st, BuiltinConservative)
        r3 == register_test_configuration(r2.st, BuiltinLiberal)
    IN IF r1.status = "raise"
       THEN [status |-> "raise", exc |-> r1.exc, st |-> r1.st, results |-> <<>>]
       ELSE IF r2.status = "raise"
       THEN [status |-> "raise", exc |-> r2.exc, st |-> r2.st, results |-> <<>>]
       ELSE IF r3.status = "raise"
       THEN [status |-> "raise", exc |-> r3.exc, st |-> r3.st, results |-> <<>>]
       ELSE comparison_loop(r3.st, applicant, variant_map(variant_a),
                            variant_map(variant_b), llm_a, llm_b)

\* [r for r in results if r.variant_id == variant]
results_of(results, variant) == SelectSeq(results, LAMBDA r : r.variant_id = variant)

\* {r.applicant_id for r in results}
applicant_ids(results) == {results[k].applicant_id : k \in 1..Len(results)}

\* applicant_ids_a.intersection(applicant_ids_b)
common_applicants(results, variant_a, variant_b) ==
    applicant_ids(results_of(results, variant_a)) \cap
    applicant_ids(results_of(results, variant_b))


\* Faulty variant: the lists are not restricted to the common applicants.
restrict_to_all(results, common) == results

\* [r for r in results if r.applicant_id in common]
restrict_to(results, common) == SelectSeq(results, LAMBDA r : r.applicant_id \in common)

\* sum(1 for r in results if r.decision == decision)
decision_count(results, decision) ==
    Cardinality({k \in 1..Len(results) : results[k].decision = decision})

\* bool(r.error): None and the empty string are falsy
truthy(error) == error # None /\ error # ""

error_count(results) == Cardinality({k \in 1..Len(results) : truthy(results[k].error)})

RECURSIVE time_sum(_, _)
time_sum(results, k) ==
    IF k > Len(results) THEN 0 ELSE results[k].processing_time_ms + time_sum(results, k + 1)

Zero == <<0, 1>>

\* count / total * 100
percent(count, total) == <<count * 100, total>>

\* calculate_rates: (accept, deny, adjudicate) percentages
calculate_rates(results) ==
    IF Len(results) = 0 THEN <<Zero, Zero, Zero>>
    ELSE << percent(decision_count(results, ACCEPT), Len(results)),
            percent(decision_count(results, DENY), Len(results)),
            percent(decision_count(results, ADJUDICATE), Len(results)) >>

avg_processing_time(results) ==
    IF Len(results) > 0 THEN <<time_sum(results, 1), Len(results)>> ELSE Zero

error_rate(results) ==
    IF Len(results) > 0 THEN percent(error_count(results), Len(results)) ELSE Zero

\* {r.applicant_id: r for r in results_b}[id]: the last entry of the applicant
lookup(results_b, id) ==
    LET ks == {k \in 1..Len(results_b) : results_b[k].applicant_id = id}
    IN results_b[CHOOSE k \in ks : \A j \in ks : j <= k]

has_lookup(results_b, id) == \E k \in 1..Len(results_b) : results_b[k].applicant_id = id

\* The dict of one disagreement: later keys overwrite earlier equal ones.
disagreement(result_a, result_b, variant_a, variant_b) ==
    (<<variant_b, "reason">> :> result_b.reason) @@
    (<<variant_a, "reason">> :> result_a.reason) @@
    (<<variant_b, "decision">> :> <<result_b.decision>>) @@
    (<<variant_a, "decision">> :> <<result_a.decision>>) @@
    (<<"", "applicant_id">> :> <<result_a.applicant_id>>)

\* The agreement loop over results_a: [agreements, disagreement_details]
RECURSIVE agreement_loop(_, _, _, _, _)
agreement_loop(results_a, results_b, variant_a, variant_b, k) ==
    IF k = 0 THEN [agreements |-> 0, disagreement_details |-> <<>>]
    ELSE LET acc == agreement_loop(results_a, results_b, variant_a, variant_b, k - 1)
             result_a == results_a[k]
         IN IF ~has_lookup(results_b, result_a.applicant_id) THEN acc
            ELSE LET result_b == lookup(results_b, result_a.applicant_id)
                 IN IF result_a.decision = result_b.decision
                    THEN [acc EXCEPT !.agreements = @ + 1]
                    ELSE [acc EXCEPT !.disagreement_details =
                              Append(@, disagreement(result_a, result_b, variant_a, variant_b))]

\* The ComparisonMetrics built from the two restricted lists.
ComparisonMetrics(variant_a, variant_b, total_tests, results_a, results_b) ==
    LET rates_a == calculate_rates(results_a)
        rates_b == calculate_rates(results_b)
        agree == agreement_loop(results_a, results_b, variant_a, variant_b, Len(results_a))
    IN [variant_a_id |-> variant_a, variant_b_id |-> variant_b,
        total_tests |-> total_tests,
        accept_rate_a |-> rates_a[1], deny_rate_a |-> rates_a[2],
        adjudicate_rate_a |-> rates_a[3],
        accept_rate_b |-> rates_b[1], deny_rate_b |-> rates_b[2],
        adjudicate_rate_b |-> rates_b[3],
        avg_processing_time_a |-> avg_processing_time(results_a),
        avg_processing_time_b |-> avg_processing_time(results_b),
        error_rate_a |-> error_rate(results_a),
        error_rate_b |-> error_rate(results_b),
        agreement_rate |-> IF total_tests > 0 THEN percent(agree.agreements, total_tests)
                           ELSE Zero,
        disagreement_details |-> agree.disagreement_details]


\* Faulty variant: the check for an empty intersection is missing.
no_common_applicants_unchecked(common) == FALSE

\* if not common_applicants: raise ValueError(...)
no_common_applicants(common) == common = {}


\* Faulty variant: the restricted lists are written back to the log.
calculate_comparison_metrics_in_place(results, variant_a, variant_b) ==
    LET common == common_applicants(results, variant_a, variant_b)
    IN IF no_common_applicants(common)
       THEN [status |-> "raise", exc |-> "ValueError", value |-> <<>>, log |-> results]
       ELSE [status |-> "ok", exc |-> None,
             value |-> << ComparisonMetrics(variant_a, variant_b, Cardinality(common),
                              restrict_to(results_of(results, variant_a), common),
                              restrict_to(results_of(results, variant_b), common)) >>,
             log |-> restrict_to(results_of(results, variant_a), common) \o
                     restrict_to(results_of(results, variant_b), common)]

\* calculate_comparison_metrics on a log: [status, exc, value, log]
calculate_comparison_metrics(results, variant_a, variant_b) ==
    LET common == common_applicants(results, variant_a, variant_b)
    IN IF no_common_applicants(common)
       THEN [status |-> "raise", exc |-> "ValueError", value |-> <<>>, log |-> results]
       ELSE [status |-> "ok", exc |-> None,
             value |-> << ComparisonMetrics(variant_a, variant_b, Cardinality(common),
                              restrict_to(results_of(results, variant_a), common),
                              restrict_to(results_of(results, variant_b), common)) >>,
             log |-> results]

-----------------------------------------------------------------------------
(* StatisticalAnalyzer (testing/statistical_analysis.py) *)

\* a / b < c / d for the rationals <<a, b>>, <<c, d>> with b, d > 0
RatLess(x, y) == x[1] * y[2] < y[1] * x[2]

One == <<1, 1>>

\* StatisticalAnalyzer(): confidence_level 0.95, alpha = 1 - confidence_level
DefaultConfidence == <<95, 100>>
Alpha(confidence_level) == <<confidence_level[2] - confidence_level[1], confidence_level[2]>>

\* StatisticalAnalyzer.__init__: both fields are set here and nowhere else.
StatisticalAnalyzer(confidence_level) ==
    [confidence_level |-> confidence_level, alpha |-> Alpha(confidence_level)]

StatisticalTest(test_name, statistic, p_value, is_significant, effect_size, interpretation) ==
    [test_name |-> test_name, statistic |-> statistic, p_value |-> p_value,
     is_significant |-> is_significant, effect_size |-> effect_size,
     interpretation |-> interpretation]

\* abs(x) for a rational x
RatAbs(x) == <<IF x[1] < 0 THEN -x[1] ELSE x[1], x[2]>>

\* effect_size_text of _interpret_proportion_test and _interpret_t_test:
\* "negligible", then three ifs with abs(effect) > 0.2, > 0.5, > 0.8.
effect_size_text(effect) ==
    IF RatLess(<<8, 10>>, RatAbs(effect)) THEN "large"
    ELSE IF RatLess(<<5, 10>>, RatAbs(effect)) THEN "medium"
    ELSE IF RatLess(<<2, 10>>, RatAbs(effect)) THEN "small"
    ELSE "negligible"

significance_text(is_significant) ==
    IF is_significant THEN "statistically significant" ELSE "not statistically significant"

\* _interpret_proportion_test: the phrases the sentence is made of
interpret_proportion_test(p_a, p_b, p_value, cohens_h, is_significant, decision_type) ==
    << significance_text(is_significant),
       IF RatLess(p_a, p_b) THEN "higher" ELSE "lower",
       effect_size_text(cohens_h) >>

\* _interpret_t_test: the phrases the sentence is made of
interpret_t_test(mean_a, mean_b, p_value, cohens_d, is_significant) ==
    << significance_text(is_significant),
       IF RatLess(mean_a, mean_b) THEN "slower" ELSE "faster",
       effect_size_text(cohens_d) >>

\* The early return both tests share: no effect size, the fixed interpretation.
InsufficientData(test_name) ==
    StatisticalTest(test_name, Zero, One, FALSE, <<>>, <<"Insufficient data for analysis">>)


\* Faulty variant: the early return is taken only when both groups are empty.
z_test_insufficient_both(n_a, n_b) == n_a = 0 /\ n_b = 0

\* n_a == 0 or n_b == 0
z_test_insufficient(n_a, n_b) == n_a = 0 \/ n_b = 0

\* Faulty variant: the proportions are computed before the group sizes are looked at.
proportion_z_test_divide_first(self, results_a, results_b, decision_type) ==
    IF Len(results_a) = 0 \/ Len(results_b) = 0
    THEN [status |-> "raise", exc |-> "ZeroDivisionError", value |-> <<>>]
    ELSE [status |-> "raise", exc |-> "NameError", value |-> <<>>]

\* proportion_z_test: [status, exc, value].  p_a = count_a / n_a divides by
\* the group sizes.  With a pooled proportion of 0 or 1 the standard error is
\* 0 and the p-value 1.0; otherwise the code reads stats.norm, and the
\* module's import of stats is commented out.
proportion_z_test(self, results_a, results_b, decision_type) ==
    LET count_a == decision_count(results_a, decision_type)
        count_b == decision_count(results_b, decision_type)
        n_a == Len(results_a)
        n_b == Len(results_b)
        name == <<"Two-Proportion Z-Test", decision_type>>
    IN IF z_test_insufficient(n_a, n_b)
       THEN [status |-> "ok", exc |-> None, value |-> <<InsufficientData(name)>>]
       ELSE IF n_a = 0 \/ n_b = 0
       THEN [status |-> "raise", exc |-> "ZeroDivisionError", value |-> <<>>]
       ELSE IF count_a + count_b = 0 \/ count_a + count_b = n_a + n_b
       THEN [status |-> "ok", exc |-> None,
             value |-> << StatisticalTest(name, Zero, One,
                              RatLess(One, self.alpha), <<Zero>>,
                              interpret_proportion_test(<<count_a, n_a>>, <<count_b, n_b>>,
                                  One, Zero, RatLess(One, self.alpha), decision_type)) >>]
       ELSE [status |-> "raise", exc |-> "NameError", value |-> <<>>]

\* chi_square_test: [status, exc, value].  The decisions are counted, then
\* the contingency table is built with np.array, and the module's import of
\* numpy is commented out.
chi_square_test(self, results_a, results_b) ==
    [status |-> "raise", exc |-> "NameError", value |-> <<>>]

\* Faulty variant: the latencies of all entries, errored ones included.
times_of_all(results) == results

\* [r.processing_time_ms for r in results if r.error is None]
times_of(results) == SelectSeq(results, LAMBDA r : r.error = None)

\* len(times_a) < 2 or len(times_b) < 2
t_test_insufficient(n_a, n_b) == n_a < 2 \/ n_b < 2

\* t_test_processing_time: [status, exc, value]; past the early return the
\* code reads stats.ttest_ind, which is not imported.
t_test_processing_time(results_a, results_b) ==
    LET name == <<"Independent T-Test (Processing Time)">>
    IN IF t_test_insufficient(Len(times_of(results_a)), Len(times_of(results_b)))
       THEN [status |-> "ok", exc |-> None, value |-> <<InsufficientData(name)>>]
       ELSE [status |-> "raise", exc |-> "NameError", value |-> <<>>]

-----------------------------------------------------------------------------
(* BusinessImpactCalculator (testing/statistical_analysis.py) *)

\* BusinessImpactCalculator.__init__
BusinessImpactCalculator(monthly_applications) ==
    [monthly_applications |-> monthly_applications]

\* BusinessImpactCalculator(): monthly_applications = 10000
DefaultCalculator == BusinessImpactCalculator(10000)

\* x - y for the rationals x, y
RatSub(x, y) == <<x[1] * y[2] - y[1] * x[2], x[2] * y[2]>>

\* x > n and x < n for a rational x and an integer n
RatGt(x, n) == x[1] > n * x[2]
RatLt(x, n) == x[1] < n * x[2]

\* One check of _assess_risk: the factor it appends and the points it adds.
RiskItem(factor, points) == [factor |-> factor, points |-> points]

\* The four checks of _assess_risk in their order: the items they add.
risk_items(metrics, accept_rate_change) ==
    (IF RatGt(accept_rate_change, 10)
     THEN <<RiskItem("Significant increase in acceptance rate may increase loss exposure", 2)>>
     ELSE IF RatGt(accept_rate_change, 5)
     THEN <<RiskItem("Moderate increase in acceptance rate", 1)>>
     ELSE <<>>)
    \o
    (IF RatLt(metrics.agreement_rate, 70)
     THEN <<RiskItem("Low agreement rate indicates significant rule differences", 2)>>
     ELSE IF RatLt(metrics.agreement_rate, 85)
     THEN <<RiskItem("Moderate agreement rate", 1)>>
     ELSE <<>>)
    \o
    (IF RatGt(RatSub(metrics.avg_processing_time_b, metrics.avg_processing_time_a), 1000)
     THEN <<RiskItem("Significant processing time increase", 1)>>
     ELSE <<>>)
    \o
    (IF RatLess(metrics.error_rate_a, metrics.error_rate_b)
     THEN <<RiskItem("Increased error rate in variant B", 1)>>
     ELSE <<>>)

RECURSIVE risk_score(_, _)
risk_score(items, k) == IF k > Len(items) THEN 0 ELSE items[k].points + risk_score(items, k + 1)

\* Faulty variant: the levels start one point later.
risk_level_above(score) == IF score > 4 THEN "High" ELSE IF score > 2 THEN "Medium" ELSE "Low"

\* if risk_score >= 4 ... elif risk_score >= 2 ... else
risk_level(score) == IF score >= 4 THEN "High" ELSE IF score >= 2 THEN "Medium" ELSE "Low"

\* _assess_risk: (risk_level, risk_factors)
assess_risk(metrics, accept_rate_change) ==
    LET items == risk_items(metrics, accept_rate_change)
    IN [risk_level |-> risk_level(risk_score(items, 1)),
        risk_factors |-> [k \in 1..Len(items) |-> items[k].factor]]

\* Faulty variant: the quotient is rounded down.
int_floor(n, d) == n \div d

\* int(n / d) for d > 0: the fraction is dropped, towards zero
int(n, d) == IF n >= 0 THEN n \div d ELSE -((-n) \div d)

\* int(self.monthly_applications * rate_change / 100)
volume_change(monthly_applications, rate_change) ==
    int(monthly_applications * rate_change[1], 100 * rate_change[2])

\* The threshold rules of _generate_recommendations in their order:
\* acceptance, adjudication, agreement, performance.
threshold_recommendations(metrics, accept_rate_change, adjudicate_rate_change) ==
            (IF RatGt(accept_rate_change, 15)
             THEN <<"Consider gradual rollout due to significant acceptance rate increase">>
             ELSE IF RatGt(accept_rate_change, 5)
             THEN <<"Monitor loss ratios closely if implementing variant B">>
             ELSE IF RatLt(accept_rate_change, -10)
             THEN <<"Variant B may be too restrictive, potentially losing market share">>
             ELSE <<>>)
            \o
            (IF RatGt(adjudicate_rate_change, 10)
             THEN <<"Ensure adequate underwriting staff for increased manual reviews">>
             ELSE IF RatLt(adjudicate_rate_change, -10)
             THEN <<"Validate that automated decisions maintain quality standards">>
             ELSE <<>>)
            \o
            (IF RatLt(metrics.agreement_rate, 70)
             THEN <<"Review disagreement cases to understand rule impact",
                    "Consider A/B testing with smaller population first">>
             ELSE <<>>)
            \o
            (IF RatGt(RatSub(metrics.avg_processing_time_b, metrics.avg_processing_time_a), 500)
             THEN <<"Optimize variant B for better performance">>
             ELSE <<>>)

\* Faulty variant: the proceed recommendation is appended to every list.
generate_recommendations_always_proceed(metrics, accept_rate_change, adjudicate_rate_change) ==
    threshold_recommendations(metrics, accept_rate_change, adjudicate_rate_change)
    \o <<"Results show minimal impact - safe to proceed with implementation">>
    \o <<"Continue monitoring key metrics post-implementation">>

\* _generate_recommendations: the proceed recommendation for an empty list,
\* the monitoring recommendation last.
generate_recommendations(metrics, accept_rate_change, adjudicate_rate_change) ==
    LET recommendations ==
            threshold_recommendations(metrics, accept_rate_change, adjudicate_rate_change)
    IN (IF recommendations = <<>>
        THEN <<"Results show minimal impact - safe to proceed with implementation">>
        ELSE recommendations)
       \o <<"Continue monitoring key metrics post-implementation">>

\* calculate_impact: the BusinessImpactAnalysis of a ComparisonMetrics
calculate_impact(self, metrics) ==
    LET accept_rate_change == RatSub(metrics.accept_rate_b, metrics.accept_rate_a)
        deny_rate_change == RatSub(metrics.deny_rate_b, metrics.deny_rate_a)
        adjudicate_rate_change == RatSub(metrics.adjudicate_rate_b, metrics.adjudicate_rate_a)
        risk == assess_risk(metrics, accept_rate_change)
    IN [variant_a_id |-> metrics.variant_a_id,
        variant_b_id |-> metrics.variant_b_id,
        estimated_monthly_applications |-> self.monthly_applications,
        accept_rate_change |-> accept_rate_change,
        deny_rate_change |-> deny_rate_change,
        adjudicate_rate_change |-> adjudicate_rate_change,
        additional_accepts_monthly |->
            volume_change(self.monthly_applications, accept_rate_change),
        additional_denies_monthly |->
            volume_change(self.monthly_applications, deny_rate_change),
        additional_adjudications_monthly |->
            volume_change(self.monthly_applications, adjudicate_rate_change),
        risk_level |-> risk.risk_level,
        risk_factors |-> risk.risk_factors,
        recommendations |->
            generate_recommendations(metrics, accept_rate_change, adjudicate_rate_change)]

-----------------------------------------------------------------------------
(* Inputs *)

\* Batches of applicants with distinct identifiers, in every order.
Batches ==
    {b \in UNION {[1..n -> Applicants] : n \in 0..MaxBatch} :
        \A j, k \in DOMAIN b : j # k => b[j].applicant_id # b[k].applicant_id}

DecisionTypes == {ACCEPT, DENY, ADJUDICATE}

\* Entries of the logs the metrics and the tests are applied to.
LogVariants == {"control", "variant_a"}
LogOutcomes ==
    { [decision |-> ACCEPT, reason |-> <<"clean">>, ms |-> 100, error |-> None],
      [decision |-> DENY, reason |-> <<"dui">>, ms |-> 250, error |-> None],
      [decision |-> ADJUDICATE, reason |-> <<"Error:", "timeout">>, ms |-> 100,
       error |-> "timeout"] }
LogEntries ==
    {TestResult(id, v, o.decision, o.reason, o.ms, o.error) :
        id \in {"APP1", "APP2"}, v \in LogVariants, o \in LogOutcomes}
Logs == UNION {[1..n -> LogEntries] : n \in 0..MaxLog}

\* The identifier pairs the metrics and the tests are asked for on those logs.
LogPairs ==
    { <<"control", "variant_a">>, <<"variant_a", "control">>,
      <<"control", "control">>, <<"control", "variant_b">> }

\* The ComparisonMetrics calculate_impact is applied to: rates, agreement,
\* latencies and error rates on both sides of every threshold it compares with.
MetricsInputs ==
    { [variant_a_id |-> "control", variant_b_id |-> "variant_a", total_tests |-> 6,
       accept_rate_a |-> aa, accept_rate_b |-> ab,
       deny_rate_a |-> <<200, 3>>, deny_rate_b |-> db,
       adjudicate_rate_a |-> <<20, 1>>, adjudicate_rate_b |-> jb,
       avg_processing_time_a |-> <<100, 1>>, avg_processing_time_b |-> tb,
       error_rate_a |-> e[1], error_rate_b |-> e[2],
       agreement_rate |-> g, disagreement_details |-> <<>>] :
        aa \in {<<0, 1>>, <<300, 6>>},
        ab \in {<<0, 1>>, <<5, 1>>, <<11, 2>>, <<10, 1>>, <<21, 2>>, <<15, 1>>, <<31, 2>>,
                <<39, 1>>, <<40, 1>>, <<500, 6>>},
        db \in {<<100, 3>>, <<200, 3>>},
        jb \in {<<9, 1>>, <<10, 1>>, <<20, 1>>, <<30, 1>>, <<31, 1>>},
        tb \in {<<100, 1>>, <<600, 1>>, <<601, 1>>, <<1100, 1>>, <<1101, 1>>},
        e \in {<<Zero, Zero>>, <<Zero, <<50, 1>>>>, <<<<50, 1>>, Zero>>},
        g \in {<<69, 1>>, <<70, 1>>, <<84, 1>>, <<85, 1>>} }

\* The two groups a test compares: up to MaxSample results under "control"
\* followed by up to MaxSample results under "variant_a".
Samples(variant) ==
    UNION {[1..n -> {TestResult("APP1", variant, o.decision, o.reason, o.ms, o.error) :
                        o \in LogOutcomes}] : n \in 0..MaxSample}
SampleLogs == {a \o b : a \in Samples("control"), b \in Samples("variant_a")}

\* Arguments of the _interpret_* functions: two proportions or means, a
\* p-value, the significance flag, and effect sizes of both signs on, below
\* and above the thresholds 0.2, 0.5 and 0.8.
InterpretArgs ==
    { [a |-> ab[1], b |-> ab[2], p_value |-> p, effect |-> <<e, 10>>, is_significant |-> sig] :
        ab \in {<< <<1, 2>>, <<3, 4>> >>, << <<3, 4>>, <<1, 2>> >>, << <<1, 2>>, <<1, 2>> >>},
        p \in {<<1, 100>>, One},
        e \in {-9, -8, -5, -2, -1, 0, 1, 2, 3, 5, 6, 8, 9},
        sig \in BOOLEAN }

\* The words of a 'Decision:' line: each token in another case, a word
\* that contains a token, a word that carries none.
Words == {"ACCEPT", "deny", "Adjudicate", "unacceptable", "maybe"}

\* Lines of a response: 'Decision:' lines of up to MaxWords different words,
\* and lines that do not start with 'Decision:'.
ResponseLines ==
    {Line("Decision", w) :
        w \in {x \in UNION {[1..n -> Words] : n \in 0..MaxWords} :
                  \A j, k \in DOMAIN x : j # k => x[j] # x[k]}}
    \cup {Line("decision", <<"ACCEPT">>), Line("Final Decision", <<"deny">>),
          Line("Primary Reason", <<"clean">>)}

\* Response texts of up to MaxLines lines; the empty text has none.
ResponseTexts == UNION {[1..n -> ResponseLines] : n \in 0..MaxLines}

\* The values of --monthly-applications.
MonthlyApplications == {10000, 150}

-----------------------------------------------------------------------------
(* Operations *)

Self == EngineState(test_configurations, engines, test_results)

SetSelf(st) ==
    /\ test_configurations' = st.cfg
    /\ engines' = st.eng
    /\ test_results' = st.log

Call(op, status, exc, va, vb, llm, input, registered) ==
    [op |-> op, status |-> status, exc |-> exc, va |-> va, vb |-> vb,
     llm |-> llm, input |-> input, registered |-> registered, again |-> FALSE]

\* The call repeats the call before it: same operation, same identifiers.
Again(op, va, vb) == last_call.op = op /\ last_call.va = va /\ last_call.vb = vb

\* Both identifiers have an engine when the call is made.
Registered(va, vb) == va \in DOMAIN engines /\ vb \in DOMAIN engines

Init ==
    /\ loadable \in Environments
    /\ test_configurations = EmptyMap
    /\ engines = EmptyMap
    /\ test_results = <<>>
    /\ pc = "idle"
    /\ batch = NoBatch
    /\ last_call = NoCall
    /\ pair_out = <<>>
    /\ batch_out = <<>>
    /\ metrics_out = <<>>
    /\ stat_out = <<>>
    /\ statistical_analyzer = StatisticalAnalyzer(DefaultConfidence)
    /\ business_calculator = DefaultCalculator
    /\ llm_response = <<>>
    /\ result_out = <<>>
    /\ impact_out = <<>>
    /\ interpret_call = NoInterpretation

RegisterTestConfiguration(config) ==
    /\ pc = "idle"
    /\ \E r \in {register_test_configuration(Self, config)} :
          /\ SetSelf(r.st)
          /\ last_call' = Call("register_test_configuration", r.status, r.exc,
                               config.variant_id, None, <<>>, <<config>>, FALSE)
    /\ pair_out' = <<>>
    /\ batch_out' = <<>>
    /\ metrics_out' = <<>>
    /\ stat_out' = <<>>
    /\ UNCHANGED runner_vars
    /\ UNCHANGED <<loadable, pc, batch>>

RunSingleComparison(applicant, va, vb, llm_a, llm_b) ==
    /\ pc = "idle"
    /\ \E r \in {run_single_comparison(Self, applicant, va, vb, llm_a, llm_b)} :
          /\ SetSelf(r.st)
          /\ last_call' = Call("run_single_comparison", r.status, r.exc, va, vb,
                               <<llm_a, llm_b>>, <<applicant>>, Registered(va, vb))
          /\ pair_out' = IF r.status = "ok" THEN <<r.results>> ELSE <<>>
    /\ batch_out' = <<>>
    /\ metrics_out' = <<>>
    /\ stat_out' = <<>>
    /\ UNCHANGED runner_vars
    /\ UNCHANGED <<loadable, pc, batch>>

\* run_batch_comparison is entered: batch_results = []
RunBatchComparison(applicants, va, vb) ==
    /\ pc = "idle"
    /\ pc' = "batch"
    /\ batch' = [applicants |-> applicants, va |-> va, vb |-> vb, i |-> 1,
                 results |-> <<>>, registered |-> Registered(va, vb), llm |-> <<>>]
    /\ last_call' = Call("run_batch_comparison", "running", None, va, vb, <<>>,
                         applicants, Registered(va, vb))
    /\ pair_out' = <<>>
    /\ batch_out' = <<>>
    /\ metrics_out' = <<>>
    /\ stat_out' = <<>>
    /\ UNCHANGED runner_vars
    /\ UNCHANGED <<loadable, test_configurations, engines, test_results>>

\* One pass of the loop of run_batch_comparison: an error of
\* run_single_comparison ends the batch call with that error.
BatchStep(llm_a, llm_b) ==
    /\ pc = "batch"
    /\ batch.i <= Len(batch.applicants)
    /\ \E r \in {run_single_comparison(Self, batch.applicants[batch.i], batch.va, batch.vb,
                                      llm_a, llm_b)},
          llm \in {Append(batch.llm, <<llm_a, llm_b>>)} :
          /\ SetSelf(r.st)
          /\ IF r.status = "ok"
             THEN /\ batch' = [batch EXCEPT !.i = @ + 1, !.llm = llm,
                                            !.results = Append(@, r.results)]
                  /\ UNCHANGED <<pc, last_call>>
             ELSE /\ batch' = NoBatch
                  /\ pc' = "idle"
                  /\ last_call' = Call("run_batch_comparison", "raise", r.exc, batch.va,
                                       batch.vb, llm, batch.applicants, batch.registered)
    /\ UNCHANGED runner_vars
    /\ UNCHANGED <<loadable, pair_out, batch_out, metrics_out, stat_out>>

\* return batch_results
BatchReturn ==
    /\ pc = "batch"
    /\ batch.i > Len(batch.applicants)
    /\ batch_out' = batch.results
    /\ last_call' = Call("run_batch_comparison", "ok", None, batch.va, batch.vb,
                         batch.llm, batch.applicants, batch.registered)
    /\ batch' = NoBatch
    /\ pc' = "idle"
    /\ UNCHANGED runner_vars
    /\ UNCHANGED <<loadable, test_configurations, engines, test_results,
                   pair_out, metrics_out, stat_out>>

CalculateComparisonMetrics(va, vb) ==
    /\ pc = "idle"
    /\ \E r \in {calculate_comparison_metrics(test_results, va, vb)} :
          /\ test_results' = r.log
          /\ metrics_out' = r.value
          /\ last_call' = [Call("calculate_comparison_metrics", r.status, r.exc, va, vb,
                                <<>>, <<>>, FALSE)
                              EXCEPT !.again = Again("calculate_comparison_metrics", va, vb)]
    /\ pair_out' = <<>>
    /\ batch_out' = <<>>
    /\ stat_out' = <<>>
    /\ UNCHANGED runner_vars
    /\ UNCHANGED <<loadable, test_configurations, engines, pc, batch>>

\* The caller's results_a / results_b and StatisticalAnalyzer.proportion_z_test
ProportionZTest(va, vb, decision_type) ==
    /\ pc = "idle"
    /\ \E r \in {proportion_z_test(statistical_analyzer, results_of(test_results, va),
                                  results_of(test_results, vb), decision_type)} :
          /\ stat_out' = r.value
          /\ last_call' = Call("proportion_z_test", r.status, r.exc, va, vb,
                               <<>>, <<decision_type>>, FALSE)
    /\ pair_out' = <<>>
    /\ batch_out' = <<>>
    /\ metrics_out' = <<>>
    /\ UNCHANGED runner_vars
    /\ UNCHANGED <<loadable, test_configurations, engines, test_results, pc, batch>>

\* The caller's results_a / results_b and StatisticalAnalyzer.t_test_processing_time
TTestProcessingTime(va, vb) ==
    /\ pc = "idle"
    /\ \E r \in {t_test_processing_time(results_of(test_results, va),
                                       results_of(test_results, vb))} :
          /\ stat_out' = r.value
          /\ last_call' = Call("t_test_processing_time", r.status, r.exc, va, vb,
                               <<>>, <<>>, FALSE)
    /\ pair_out' = <<>>
    /\ batch_out' = <<>>
    /\ metrics_out' = <<>>
    /\ UNCHANGED runner_vars
    /\ UNCHANGED <<loadable, test_configurations, engines, test_results, pc, batch>>

ClearResults ==
    /\ pc = "idle"
    /\ test_results' = <<>>
    /\ last_call' = Call("clear_results", "ok", None, None, None, <<>>, <<>>, FALSE)
    /\ pair_out' = <<>>
    /\ batch_out' = <<>>
    /\ metrics_out' = <<>>
    /\ stat_out' = <<>>
    /\ UNCHANGED runner_vars
    /\ UNCHANGED <<loadable, test_configurations, engines, pc, batch>>

Next ==
    \/ \E config \in CallerConfigurations : RegisterTestConfiguration(config)
    \/ \E applicant \in Applicants, p \in CallPairs, llm_a, llm_b \in LLMOutcomes :
          RunSingleComparison(applicant, p[1], p[2], llm_a, llm_b)
    \/ \E applicants \in Batches, p \in CallPairs : RunBatchComparison(applicants, p[1], p[2])
    \/ \E llm_a, llm_b \in LLMOutcomes : BatchStep(llm_a, llm_b)
    \/ BatchReturn
    \/ \E p \in CallPairs : CalculateComparisonMetrics(p[1], p[2])
    \/ ClearResults

\* The engine driven through its operations.
Spec == Init /\ [][Next]_vars

\* The metrics and the tests applied to a log of any content.
LogInit ==
    /\ loadable = RuleFiles
    /\ test_configurations = EmptyMap
    /\ engines = EmptyMap
    /\ test_results \in Logs
    /\ pc = "idle"
    /\ batch = NoBatch
    /\ last_call = NoCall
    /\ pair_out = <<>>
    /\ batch_out = <<>>
    /\ metrics_out = <<>>
    /\ stat_out = <<>>
    /\ statistical_analyzer = StatisticalAnalyzer(DefaultConfidence)
    /\ business_calculator = DefaultCalculator
    /\ llm_response = <<>>
    /\ result_out = <<>>
    /\ impact_out = <<>>
    /\ interpret_call = NoInterpretation

\* One operation is applied to the log; the metrics may be asked for again.
LogNext ==
    \/ /\ last_call.op \in {"none", "calculate_comparison_metrics"}
       /\ \E p \in LogPairs : CalculateComparisonMetrics(p[1], p[2])
    \/ /\ last_call.op = "none"
       /\ \E p \in LogPairs, d \in DecisionTypes : ProportionZTest(p[1], p[2], d)
    \/ /\ last_call.op = "none"
       /\ \E p \in LogPairs : TTestProcessingTime(p[1], p[2])

LogSpec == LogInit /\ [][LogNext]_vars

\* The caller's results_a / results_b and StatisticalAnalyzer.chi_square_test
ChiSquareTest(va, vb) ==
    /\ pc = "idle"
    /\ \E r \in {chi_square_test(statistical_analyzer, results_of(test_results, va),
                                results_of(test_results, vb))} :
          /\ stat_out' = r.value
          /\ last_call' = Call("chi_square_test", r.status, r.exc, va, vb, <<>>, <<>>, FALSE)
    /\ pair_out' = <<>>
    /\ batch_out' = <<>>
    /\ metrics_out' = <<>>
    /\ UNCHANGED runner_vars
    /\ UNCHANGED <<loadable, test_configurations, engines, test_results, pc, batch>>

\* The runner's log holds the results of two groups.
SampleInit ==
    /\ loadable = RuleFiles
    /\ test_configurations = EmptyMap
    /\ engines = EmptyMap
    /\ test_results \in SampleLogs
    /\ pc = "idle"
    /\ batch = NoBatch
    /\ last_call = NoCall
    /\ pair_out = <<>>
    /\ batch_out = <<>>
    /\ metrics_out = <<>>
    /\ stat_out = <<>>
    /\ statistical_analyzer = StatisticalAnalyzer(DefaultConfidence)
    /\ business_calculator = DefaultCalculator
    /\ llm_response = <<>>
    /\ result_out = <<>>
    /\ impact_out = <<>>
    /\ interpret_call = NoInterpretation

\* One of the three tests is run on the two groups.
SampleNext ==
    \/ /\ last_call.op = "none"
       /\ ChiSquareTest("control", "variant_a")
    \/ /\ last_call.op = "none"
       /\ \E d \in DecisionTypes : ProportionZTest("control", "variant_a", d)
    \/ /\ last_call.op = "none"
       /\ TTestProcessingTime("control", "variant_a")

SampleSpec == SampleInit /\ [][SampleNext]_vars

\* StatisticalAnalyzer._interpret_proportion_test on the arguments held
InterpretProportionTest(decision_type) ==
    /\ pc = "idle"
    /\ Len(interpret_call.args) = 1
    /\ interpret_call.text = <<>>
    /\ \E x \in {interpret_call.args[1]} :
          interpret_call' = [interpret_call EXCEPT !.text =
              <<interpret_proportion_test(x.a, x.b, x.p_value, x.effect, x.is_significant,
                                          decision_type)>>]
    /\ last_call' = Call("_interpret_proportion_test", "ok", None, None, None, <<>>,
                         <<decision_type>>, FALSE)
    /\ UNCHANGED <<loadable, test_configurations, engines, test_results, pc, batch,
                   pair_out, batch_out, metrics_out, stat_out,
                   statistical_analyzer, business_calculator, llm_response, result_out,
                   impact_out>>

\* StatisticalAnalyzer._interpret_t_test on the arguments held
InterpretTTest ==
    /\ pc = "idle"
    /\ Len(interpret_call.args) = 1
    /\ interpret_call.text = <<>>
    /\ \E x \in {interpret_call.args[1]} :
          interpret_call' = [interpret_call EXCEPT !.text =
              <<interpret_t_test(x.a, x.b, x.p_value, x.effect, x.is_significant)>>]
    /\ last_call' = Call("_interpret_t_test", "ok", None, None, None, <<>>, <<>>, FALSE)
    /\ UNCHANGED <<loadable, test_configurations, engines, test_results, pc, batch,
                   pair_out, batch_out, metrics_out, stat_out,
                   statistical_analyzer, business_calculator, llm_response, result_out,
                   impact_out>>

\* A test computed its numbers and is about to render its interpretation.
InterpretInit ==
    /\ loadable = RuleFiles
    /\ test_configurations = EmptyMap
    /\ engines = EmptyMap
    /\ test_results = <<>>
    /\ pc = "idle"
    /\ batch = NoBatch
    /\ last_call = NoCall
    /\ pair_out = <<>>
    /\ batch_out = <<>>
    /\ metrics_out = <<>>
    /\ stat_out = <<>>
    /\ statistical_analyzer = StatisticalAnalyzer(DefaultConfidence)
    /\ business_calculator = DefaultCalculator
    /\ llm_response = <<>>
    /\ result_out = <<>>
    /\ impact_out = <<>>
    /\ interpret_call \in {[args |-> <<x>>, text |-> <<>>] : x \in InterpretArgs}

InterpretNext ==
    \/ \E d \in DecisionTypes : InterpretProportionTest(d)
    \/ InterpretTTest

InterpretSpec == InterpretInit /\ [][InterpretNext]_vars

\* main: the runner is built with its defaults, then the two command-line
\* values are assigned to the fields of its analyzer and its calculator.
ConfigureRunner(confidence_level, monthly_applications) ==
    /\ pc = "idle"
    /\ statistical_analyzer' =
           [StatisticalAnalyzer(DefaultConfidence) EXCEPT !.confidence_level = confidence_level]
    /\ business_calculator' =
           [DefaultCalculator EXCEPT !.monthly_applications = monthly_applications]
    /\ last_call' = Call("main", "ok", None, None, None, <<>>,
                         <<confidence_level, monthly_applications>>, FALSE)
    /\ UNCHANGED <<loadable, test_configurations, engines, test_results, pc, batch,
                   pair_out, batch_out, metrics_out, stat_out,
                   llm_response, result_out, impact_out, interpret_call>>

\* The values of --confidence-level.
ConfidenceLevels == {<<95, 100>>, <<99, 100>>, <<90, 100>>}

\* The command line configures the runner, then a test is run on a log.
AnalyzerNext ==
    \/ /\ last_call.op = "none"
       /\ \E c \in ConfidenceLevels : ConfigureRunner(c, DefaultCalculator.monthly_applications)
    \/ /\ last_call.op \in {"none", "main"}
       /\ \E p \in LogPairs, d \in DecisionTypes : ProportionZTest(p[1], p[2], d)
    \/ /\ last_call.op \in {"none", "main"}
       /\ \E p \in LogPairs : TTestProcessingTime(p[1], p[2])

AnalyzerSpec == LogInit /\ [][AnalyzerNext]_vars

\* UnderwritingEngine._parse_llm_response on the collaborator's response
ParseLlmResponse ==
    /\ pc = "idle"
    /\ result_out = <<>>
    /\ result_out' = <<parse_llm_response(llm_response, "APP1")>>
    /\ last_call' = Call("_parse_llm_response", "ok", None, None, None, <<>>, <<>>, FALSE)
    /\ UNCHANGED <<loadable, test_configurations, engines, test_results, pc, batch,
                   pair_out, batch_out, metrics_out, stat_out,
                   statistical_analyzer, business_calculator, llm_response, impact_out,
                   interpret_call>>

\* The collaborator answered with a text of any content.
ParseInit ==
    /\ loadable = RuleFiles
    /\ test_configurations = EmptyMap
    /\ engines = EmptyMap
    /\ test_results = <<>>
    /\ pc = "idle"
    /\ batch = NoBatch
    /\ last_call = NoCall
    /\ pair_out = <<>>
    /\ batch_out = <<>>
    /\ metrics_out = <<>>
    /\ stat_out = <<>>
    /\ statistical_analyzer = StatisticalAnalyzer(DefaultConfidence)
    /\ business_calculator = DefaultCalculator
    /\ llm_response \in ResponseTexts
    /\ result_out = <<>>
    /\ impact_out = <<>>
    /\ interpret_call = NoInterpretation

ParseNext == ParseLlmResponse

ParseSpec == ParseInit /\ [][ParseNext]_vars

\* BusinessImpactCalculator.calculate_impact on the metrics the runner holds
CalculateImpact ==
    /\ pc = "idle"
    /\ Len(metrics_out) = 1
    /\ impact_out' = <<calculate_impact(business_calculator, metrics_out[1])>>
    /\ last_call' = Call("calculate_impact", "ok", None, None, None, <<>>, <<>>, FALSE)
    /\ UNCHANGED <<loadable, test_configurations, engines, test_results, pc, batch,
                   pair_out, batch_out, metrics_out, stat_out,
                   statistical_analyzer, business_calculator, llm_response, result_out,
                   interpret_call>>

\* The runner holds a ComparisonMetrics of any content.
ImpactInit ==
    /\ loadable = RuleFiles
    /\ test_configurations = EmptyMap
    /\ engines = EmptyMap
    /\ test_results = <<>>
    /\ pc = "idle"
    /\ batch = NoBatch
    /\ last_call = NoCall
    /\ pair_out = <<>>
    /\ batch_out = <<>>
    /\ metrics_out \in {<<m>> : m \in MetricsInputs}
    /\ stat_out = <<>>
    /\ statistical_analyzer = StatisticalAnalyzer(DefaultConfidence)
    /\ business_calculator = DefaultCalculator
    /\ llm_response = <<>>
    /\ result_out = <<>>
    /\ impact_out = <<>>
    /\ interpret_call = NoInterpretation

\* The command line configures the runner, then the impact is calculated.
ImpactNext ==
    \/ /\ last_call.op = "none"
       /\ \E m \in MonthlyApplications : ConfigureRunner(DefaultConfidence, m)
    \/ /\ last_call.op \in {"none", "main"}
       /\ CalculateImpact

ImpactSpec == ImpactInit /\ [][ImpactNext]_vars

-----------------------------------------------------------------------------
(* Properties *)

RatEq(x, y) == x[1] * y[2] = y[1] * x[2]

Finished(op) == last_call.op = op /\ last_call.status # "running"
Returned(op) == last_call.op = op /\ last_call.status = "ok"

\* The evaluation of an applicant reached the collaborator and the call failed.
LLMFailed(applicant, llm) == ~applicant.has_history /\ llm.kind = "raise"

\* C1: when the LLM collaborator call fails, the result run_single_comparison
\* records for that evaluation has decision ADJUDICATE and a non-null error.
C1_FailureRecordedWithError ==
    Returned("run_single_comparison") =>
        \A k \in 1..2 :
            LLMFailed(last_call.input[1], last_call.llm[k]) =>
                /\ pair_out[1][k].decision = ADJUDICATE
                /\ pair_out[1][k].error # None

\* C2: after run_batch_comparison returned for a non-empty batch of distinct
\* applicants, calculate_comparison_metrics with the same two identifiers
\* succeeds and reports total_tests = the number of applicants.
C2_MetricsCoverBatch ==
    (Returned("run_batch_comparison") /\ Len(last_call.input) > 0) =>
        LET m == calculate_comparison_metrics(test_results, last_call.va, last_call.vb)
        IN /\ m.status = "ok"
           /\ m.value[1].total_tests = Len(last_call.input)

\* C3: no step other than clear_results loses an entry of the result log.
C3_LogOnlyGrows ==
    [][last_call'.op # "clear_results" =>
          \A k \in 1..Len(test_results) :
              \E j \in 1..Len(test_results') : test_results'[j] = test_results[k]]_vars

\* C4: for every batch and every pair of registered variants
\* run_batch_comparison returns one pair per applicant, the i-th pair holding
\* the two results of the i-th applicant.
C4_BatchOrderPreserved ==
    (Finished("run_batch_comparison") /\ last_call.registered) =>
        /\ last_call.status = "ok"
        /\ Len(batch_out) = Len(last_call.input)
        /\ \A i \in 1..Len(batch_out) :
              /\ batch_out[i][1].applicant_id = last_call.input[i].applicant_id
              /\ batch_out[i][2].applicant_id = last_call.input[i].applicant_id

\* An evaluation of the i-th applicant of the batch failed.
EvaluationFailed(i) ==
    \/ last_call.input[i].has_history
    \/ last_call.llm[i][1].kind = "raise"
    \/ last_call.llm[i][2].kind = "raise"

\* C5: with two registered variants, a failed evaluation is captured and the
\* batch goes on: it returns a result pair for every applicant.
C5_BatchSurvivesFailure ==
    (/\ Finished("run_batch_comparison")
     /\ last_call.registered
     /\ \E i \in 1..Len(last_call.llm) : EvaluationFailed(i)) =>
        /\ last_call.status = "ok"
        /\ Len(batch_out) = Len(last_call.input)
        /\ \A i \in 1..Len(batch_out) :
              (last_call.input[i].has_history \/ last_call.llm[i][1].kind = "raise") =>
                  batch_out[i][1].decision = ADJUDICATE

\* C7: the same variant as A and as B, then the metrics on its logged
\* identifier: agreement_rate = 100 and the rates of A equal those of B.
C7_SelfComparisonAgrees ==
    (Returned("run_single_comparison") /\ variant_map(last_call.va) = variant_map(last_call.vb)) =>
        LET id == pair_out[1][1].variant_id
            m == calculate_comparison_metrics(test_results, id, id)
        IN /\ m.status = "ok"
           /\ RatEq(m.value[1].agreement_rate, <<100, 1>>)
           /\ m.value[1].accept_rate_a = m.value[1].accept_rate_b
           /\ m.value[1].deny_rate_a = m.value[1].deny_rate_b
           /\ m.value[1].adjudicate_rate_a = m.value[1].adjudicate_rate_b

\* The applicant has results under exactly one of the two variants.
OneSided(results, id, va, vb) ==
    /\ id \in applicant_ids(results_of(results, va)) \cup applicant_ids(results_of(results, vb))
    /\ id \notin common_applicants(results, va, vb)

Remove(results, k) == [j \in 1..(Len(results) - 1) |-> IF j < k THEN results[j] ELSE results[j + 1]]

Insert(results, k, e) ==
    [j \in 1..(Len(results) + 1) |->
        IF j < k THEN results[j] ELSE IF j = k THEN e ELSE results[j - 1]]

\* The logs that differ from results by one entry of a one-sided applicant.
OneSidedChanges(results, va, vb) ==
    {Remove(results, k) : k \in {j \in 1..Len(results) :
                                    OneSided(results, results[j].applicant_id, va, vb)}}
    \cup
    {log \in {Insert(results, k, e) : k \in 1..(Len(results) + 1), e \in LogEntries} :
        \E k \in 1..Len(log) :
            /\ Remove(log, k) = results
            /\ OneSided(log, log[k].applicant_id, va, vb)}

\* C6: total_tests is the size of the intersection, and entries of applicants
\* present under one variant only change nothing of the metrics.
C6_IntersectionOnly ==
    Returned("calculate_comparison_metrics") =>
        LET va == last_call.va
            vb == last_call.vb
        IN /\ metrics_out[1].total_tests =
                  Cardinality(applicant_ids(results_of(test_results, va)) \cap
                              applicant_ids(results_of(test_results, vb)))
           /\ \A log \in OneSidedChanges(test_results, va, vb) :
                  calculate_comparison_metrics(log, va, vb).value = metrics_out

C6_Witness ==
    /\ Returned("calculate_comparison_metrics")
    /\ last_call.va # last_call.vb
    /\ \E k \in 1..Len(test_results) :
          OneSided(test_results, test_results[k].applicant_id, last_call.va, last_call.vb)

\* C8: with no applicant under both variants calculate_comparison_metrics
\* raises ValueError, returns no metrics and leaves the log as it was.
C8_EmptyIntersectionFails ==
    [][\A p \in LogPairs :
          (/\ CalculateComparisonMetrics(p[1], p[2])
           /\ applicant_ids(results_of(test_results, p[1])) \cap
              applicant_ids(results_of(test_results, p[2])) = {}) =>
              /\ last_call'.status = "raise"
              /\ last_call'.exc = "ValueError"
              /\ metrics_out' = <<>>
              /\ test_results' = test_results]_vars

C8_Witness ==
    /\ last_call.op = "calculate_comparison_metrics"
    /\ last_call.status = "raise"
    /\ results_of(test_results, last_call.va) # <<>>
    /\ results_of(test_results, last_call.vb) # <<>>

\* The condition the last call met is one of the insufficient-data conditions.
EmptyIntersection ==
    /\ last_call.op = "calculate_comparison_metrics"
    /\ common_applicants(test_results, last_call.va, last_call.vb) = {}
EmptyGroup ==
    /\ last_call.op = "proportion_z_test"
    /\ \/ Len(results_of(test_results, last_call.va)) = 0
       \/ Len(results_of(test_results, last_call.vb)) = 0
TooFewSamples ==
    /\ last_call.op = "t_test_processing_time"
    /\ \/ Cardinality({k \in 1..Len(test_results) :
              test_results[k].variant_id = last_call.va /\ test_results[k].error = None}) < 2
       \/ Cardinality({k \in 1..Len(test_results) :
              test_results[k].variant_id = last_call.vb /\ test_results[k].error = None}) < 2

\* A returned StatisticalTest marked as not computable.
NotComputable ==
    /\ last_call.status = "ok"
    /\ Len(stat_out) = 1
    /\ stat_out[1].p_value = One
    /\ ~stat_out[1].is_significant
    /\ stat_out[1].interpretation = <<"Insufficient data for analysis">>

\* C9 as stated: every insufficient-data condition ends in a returned result,
\* none in an exception.
C9_InsufficientDataReturns ==
    (EmptyIntersection \/ EmptyGroup \/ TooFewSamples) => last_call.status = "ok"

\* C9 amended: the two statistical tests return a not-computable result for
\* their insufficient-data conditions; the empty intersection raises ValueError.
C9_InsufficientDataAmended ==
    /\ (EmptyGroup \/ TooFewSamples) => NotComputable
    /\ EmptyIntersection => (last_call.status = "raise" /\ last_call.exc = "ValueError")

C9_Witness ==
    /\ EmptyGroup
    /\ NotComputable
    /\ Len(results_of(test_results, last_call.va)) + Len(results_of(test_results, last_call.vb)) > 0

\* C10: calculate_comparison_metrics changes neither the log nor the
\* configurations nor the engines, and asked again for the same identifiers
\* on the unchanged log it returns the same metrics.
C10_MetricsRepeatable ==
    [][last_call'.op = "calculate_comparison_metrics" =>
          /\ test_results' = test_results
          /\ test_configurations' = test_configurations
          /\ engines' = engines
          /\ last_call'.again =>
                (metrics_out' = metrics_out /\ last_call'.status = last_call.status)]_vars

C10_Witness ==
    /\ Returned("calculate_comparison_metrics")
    /\ last_call.again
    /\ metrics_out[1].disagreement_details # <<>>
    /\ DOMAIN engines # {}

\* The engine UnderwritingEngine(rules_file) with the configuration's prompt.
EngineOf(config) ==
    [rules_file |-> config.rules_file,
     prompt_template |-> IF config.prompt_template # None THEN config.prompt_template
                         ELSE "default"]

\* C11: a comparison called with two identifiers that have a registered
\* engine does not reject them as unregistered, and evaluates each with the
\* engine that was registered under it.
C11_RegisteredVariantUsable ==
    [][(/\ pc = "idle"
        /\ last_call'.op = "run_single_comparison"
        /\ last_call'.registered) =>
          /\ last_call'.exc # "ValueError"
          /\ last_call'.status = "ok" =>
                /\ engines'[pair_out'[1][1].variant_id] = engines[last_call'.va]
                /\ engines'[pair_out'[1][2].variant_id] = engines[last_call'.vb]]_vars

C13_LastRegistrationWins ==
    [][(/\ Returned("register_test_configuration")
        /\ last_call'.op = "register_test_configuration"
        /\ last_call'.status = "ok"
        /\ last_call'.va = last_call.va) =>
          /\ test_configurations'[last_call'.va] = last_call'.input[1]
          /\ last_call'.va \in DOMAIN engines'
          /\ engines'[last_call'.va] = EngineOf(last_call'.input[1])]_vars

\* C14: proportion_z_test with an empty result list, whatever the decision
\* type, returns statistic 0, p_value 1.0, is_significant false and the
\* insufficient-data interpretation, and raises no division error.
C14_EmptyGroupZTest ==
    (/\ last_call.op = "proportion_z_test"
     /\ \/ results_of(test_results, last_call.va) = <<>>
        \/ results_of(test_results, last_call.vb) = <<>>) =>
        /\ last_call.exc # "ZeroDivisionError"
        /\ last_call.status = "ok"
        /\ stat_out = << StatisticalTest(<<"Two-Proportion Z-Test", last_call.input[1]>>,
                             Zero, One, FALSE, <<>>,
                             <<"Insufficient data for analysis">>) >>

\* One list is empty, the other holds a result of the decision type asked for.
C14_Witness ==
    /\ Returned("proportion_z_test")
    /\ last_call.input[1] = DENY
    /\ results_of(test_results, last_call.va) = <<>>
    /\ decision_count(results_of(test_results, last_call.vb), DENY) > 0

\* C15: whenever the analyzer has run a test, its alpha is
\* 1 - its confidence_level.
C15_AlphaFollowsConfidence ==
    last_call.op \in {"proportion_z_test", "t_test_processing_time"} =>
        RatEq(statistical_analyzer.alpha, Alpha(statistical_analyzer.confidence_level))

\* The points of the four risk conditions for a ComparisonMetrics m.
AcceptPoints(m) ==
    LET delta == RatSub(m.accept_rate_b, m.accept_rate_a)
    IN IF RatGt(delta, 10) THEN 2 ELSE IF RatGt(delta, 5) THEN 1 ELSE 0
AgreementPoints(m) ==
    IF RatLt(m.agreement_rate, 70) THEN 2 ELSE IF RatLt(m.agreement_rate, 85) THEN 1 ELSE 0
LatencyPoints(m) ==
    IF RatGt(RatSub(m.avg_processing_time_b, m.avg_processing_time_a), 1000) THEN 1 ELSE 0
ErrorPoints(m) == IF RatLess(m.error_rate_a, m.error_rate_b) THEN 1 ELSE 0
RiskPoints(m) == <<AcceptPoints(m), AgreementPoints(m), LatencyPoints(m), ErrorPoints(m)>>

\* C16: the risk level follows the sum of the points of the four conditions
\* (High from 4, Medium from 2, else Low), and risk_factors has one string
\* for each condition that gave points.
C16_RiskScore ==
    Returned("calculate_impact") =>
        LET points == RiskPoints(metrics_out[1])
            score == points[1] + points[2] + points[3] + points[4]
        IN /\ impact_out[1].risk_level =
                  (IF score >= 4 THEN "High" ELSE IF score >= 2 THEN "Medium" ELSE "Low")
           /\ Len(impact_out[1].risk_factors) = Cardinality({k \in 1..4 : points[k] > 0})
           /\ \A j, k \in 1..Len(impact_out[1].risk_factors) :
                  j # k => impact_out[1].risk_factors[j] # impact_out[1].risk_factors[k]

\* A score of exactly 4 from three conditions, and a score of exactly 2.
C16_Witness ==
    /\ Returned("calculate_impact")
    /\ RiskPoints(metrics_out[1]) = <<2, 1, 1, 0>>
    /\ impact_out[1].risk_level = "High"
    /\ Len(impact_out[1].risk_factors) = 3

\* r is n / d (d > 0) with its fraction dropped: towards zero on both sides.
TruncatedQuotient(r, n, d) ==
    IF n >= 0 THEN r >= 0 /\ r * d <= n /\ n < (r + 1) * d
    ELSE r <= 0 /\ (r - 1) * d < n /\ n <= r * d

\* monthly_applications * (rate_b - rate_a) / 100 as numerator and denominator
ProjectedVolume(monthly, rate_a, rate_b) ==
    <<monthly * (rate_b[1] * rate_a[2] - rate_a[1] * rate_b[2]), 100 * rate_a[2] * rate_b[2]>>

\* C17: each projected monthly volume delta is
\* monthly_applications * (rate_b - rate_a) / 100 truncated toward zero;
\* 3 of 6 against 5 of 6 accepted at 10000 a month gives 3333.
C17_VolumeTruncated ==
    Returned("calculate_impact") =>
        LET m == metrics_out[1]
            a == impact_out[1]
            monthly == business_calculator.monthly_applications
            accepts == ProjectedVolume(monthly, m.accept_rate_a, m.accept_rate_b)
            denies == ProjectedVolume(monthly, m.deny_rate_a, m.deny_rate_b)
            adjudications == ProjectedVolume(monthly, m.adjudicate_rate_a, m.adjudicate_rate_b)
        IN /\ TruncatedQuotient(a.additional_accepts_monthly, accepts[1], accepts[2])
           /\ TruncatedQuotient(a.additional_denies_monthly, denies[1], denies[2])
           /\ TruncatedQuotient(a.additional_adjudications_monthly,
                                adjudications[1], adjudications[2])
           /\ (/\ m.accept_rate_a = percent(3, 6)
               /\ m.accept_rate_b = percent(5, 6)
               /\ monthly = 10000) => a.additional_accepts_monthly = 3333

\* The example of the claim, with a negative delta that is not a whole number.
C17_Witness ==
    /\ Returned("calculate_impact")
    /\ metrics_out[1].accept_rate_a = percent(3, 6)
    /\ metrics_out[1].accept_rate_b = percent(5, 6)
    /\ business_calculator.monthly_applications = 10000
    /\ impact_out[1].additional_accepts_monthly = 3333
    /\ impact_out[1].additional_denies_monthly = -3333

\* The rule group of a recommendation string: 1 acceptance, 2 adjudication,
\* 3 agreement, 4 performance, 0 for the two general recommendations.
RuleGroup(r) ==
    CASE r \in {"Consider gradual rollout due to significant acceptance rate increase",
                "Monitor loss ratios closely if implementing variant B",
                "Variant B may be too restrictive, potentially losing market share"} -> 1
      [] r \in {"Ensure adequate underwriting staff for increased manual reviews",
                "Validate that automated decisions maintain quality standards"} -> 2
      [] r \in {"Review disagreement cases to understand rule impact",
                "Consider A/B testing with smaller population first"} -> 3
      [] r = "Optimize variant B for better performance" -> 4
      [] OTHER -> 0

\* The rule groups whose threshold condition holds for a ComparisonMetrics m.
FiredGroups(m) ==
    LET accept == RatSub(m.accept_rate_b, m.accept_rate_a)
        adjudicate == RatSub(m.adjudicate_rate_b, m.adjudicate_rate_a)
        latency == RatSub(m.avg_processing_time_b, m.avg_processing_time_a)
    IN {g \in 1..4 :
           \/ g = 1 /\ (RatGt(accept, 5) \/ RatLt(accept, -10))
           \/ g = 2 /\ (RatGt(adjudicate, 10) \/ RatLt(adjudicate, -10))
           \/ g = 3 /\ RatLt(m.agreement_rate, 70)
           \/ g = 4 /\ RatGt(latency, 500)}

\* C18: the list ends with the continue-monitoring recommendation, holds
\* the proceed recommendation exactly when no threshold rule fired, and
\* otherwise the strings of the fired rules, and only those, in rule order.
C18_Recommendations ==
    Returned("calculate_impact") =>
        LET recs == impact_out[1].recommendations
            fired == FiredGroups(metrics_out[1])
            body == SubSeq(recs, 1, Len(recs) - 1)
        IN /\ Len(recs) >= 2
           /\ recs[Len(recs)] = "Continue monitoring key metrics post-implementation"
           /\ (\E k \in 1..Len(recs) :
                   recs[k] = "Results show minimal impact - safe to proceed with implementation")
                 <=> fired = {}
           /\ fired = {} => Len(recs) = 2
           /\ fired # {} =>
                 /\ {RuleGroup(body[k]) : k \in 1..Len(body)} = fired
                 /\ \A j, k \in 1..Len(body) :
                        j < k => /\ RuleGroup(body[j]) <= RuleGroup(body[k])
                                 /\ body[j] # body[k]

\* All four rule groups fired.
C18_Witness ==
    /\ Returned("calculate_impact")
    /\ FiredGroups(metrics_out[1]) = 1..4
    /\ Len(impact_out[1].recommendations) = 6

\* The decision tokens the text of a line carries, in any letter case.
TokensOf(words) == {t \in {"ACCEPT", "DENY", "ADJUDICATE"} : InText(t, words)}

\* A line that starts with 'Decision:' and carries a recognised token.
Recognised(line) == line.label = "Decision" /\ TokensOf(line.words) # {}

\* C19: a response text without a 'Decision:' line that carries a recognised
\* token (the empty text, other labels, unknown tokens) parses to ADJUDICATE.
C19_DefaultAdjudicate ==
    (/\ Returned("_parse_llm_response")
     /\ \A k \in 1..Len(llm_response) : ~Recognised(llm_response[k])) =>
        result_out[1].decision = ADJUDICATE

\* A 'Decision:' line with an unknown token next to a line with another label.
C19_Witness ==
    /\ Returned("_parse_llm_response")
    /\ \A k \in 1..Len(llm_response) : ~Recognised(llm_response[k])
    /\ \E k \in 1..Len(llm_response) : llm_response[k] = Line("Decision", <<"maybe">>)
    /\ \E k \in 1..Len(llm_response) : llm_response[k] = Line("decision", <<"ACCEPT">>)
    /\ result_out[1].decision = ADJUDICATE

\* C20: a 'Decision:' line with more than one decision word is decided by
\* the precedence ACCEPT, DENY, ADJUDICATE, wherever the words stand and
\* whatever their letter case (for a text with that one 'Decision:' line).
C20_Precedence ==
    Returned("_parse_llm_response") =>
        \A k \in 1..Len(llm_response) :
            (/\ llm_response[k].label = "Decision"
             /\ \A j \in 1..Len(llm_response) : llm_response[j].label = "Decision" => j = k
             /\ Cardinality(TokensOf(llm_response[k].words)) > 1) =>
                result_out[1].decision =
                    (IF "ACCEPT" \in TokensOf(llm_response[k].words) THEN ACCEPT
                     ELSE IF "DENY" \in TokensOf(llm_response[k].words) THEN DENY
                     ELSE ADJUDICATE)

\* ADJUDICATE stands before DENY in the line and DENY is picked.
C20_Witness ==
    /\ Returned("_parse_llm_response")
    /\ llm_response = <<Line("Primary Reason", <<"clean">>),
                        Line("Decision", <<"Adjudicate", "deny">>)>>
    /\ result_out[1].decision = DENY

\* C21: when run_single_comparison returns (result_a, result_b), the log
\* ends with result_a immediately followed by result_b: variant A was
\* evaluated and logged before variant B, for the same applicant.
C21_LoggedInOrder ==
    Returned("run_single_comparison") =>
        LET n == Len(test_results)
        IN /\ n >= 2
           /\ test_results[n - 1] = pair_out[1][1]
           /\ test_results[n] = pair_out[1][2]
           /\ pair_out[1][1].variant_id = variant_map(last_call.va)
           /\ pair_out[1][2].variant_id = variant_map(last_call.vb)
           /\ pair_out[1][1].applicant_id = last_call.input[1].applicant_id
           /\ pair_out[1][2].applicant_id = last_call.input[1].applicant_id

\* Two different variants that decided differently.
C21_Witness ==
    /\ Returned("run_single_comparison")
    /\ pair_out[1][1].variant_id # pair_out[1][2].variant_id
    /\ pair_out[1][1].decision = DENY
    /\ pair_out[1][2].decision = ACCEPT
    /\ test_results = pair_out[1]

\* The intersection applicants whose decision under va equals the one under
\* vb (the latest entry counts where an applicant has several).
AgreeingApplicants(results, va, vb) ==
    {id \in common_applicants(results, va, vb) :
        lookup(results_of(results, va), id).decision =
        lookup(results_of(results, vb), id).decision}

\* C22: agreement_rate is 100 * (intersection applicants with equal
\* decisions) / (intersection applicants), and so between 0 and 100.
C22_AgreementRate ==
    Returned("calculate_comparison_metrics") =>
        LET va == last_call.va
            vb == last_call.vb
            rate == metrics_out[1].agreement_rate
        IN /\ RatEq(rate, percent(Cardinality(AgreeingApplicants(test_results, va, vb)),
                                  Cardinality(common_applicants(test_results, va, vb))))
           /\ ~RatLt(rate, 0)
           /\ ~RatGt(rate, 100)

\* The disagreement records of an applicant.
RecordsOf(details, id) ==
    {k \in 1..Len(details) : details[k][<<"", "applicant_id">>] = <<id>>}

\* C23: disagreement_details has one record for each intersection applicant
\* whose decisions differ and none for the others, so agreements + records =
\* total_tests; a record carries the applicant id, both decisions and both
\* reasons.
C23_DisagreementRecords ==
    Returned("calculate_comparison_metrics") =>
        LET va == last_call.va
            vb == last_call.vb
            m == metrics_out[1]
            common == common_applicants(test_results, va, vb)
            agreeing == AgreeingApplicants(test_results, va, vb)
        IN /\ \A id \in agreeing : RecordsOf(m.disagreement_details, id) = {}
           /\ \A id \in common \ agreeing :
                  Cardinality(RecordsOf(m.disagreement_details, id)) = 1
           /\ Cardinality(agreeing) + Len(m.disagreement_details) = m.total_tests
           /\ \A k \in 1..Len(m.disagreement_details) :
                  Cardinality(DOMAIN m.disagreement_details[k]) = 5

\* C24: for two non-empty result lists each of the three tests returns a
\* StatisticalTest whose is_significant is true exactly when p_value < alpha.
C24_SignificanceFlag ==
    (/\ last_call.op \in {"chi_square_test", "proportion_z_test", "t_test_processing_time"}
     /\ results_of(test_results, last_call.va) # <<>>
     /\ results_of(test_results, last_call.vb) # <<>>) =>
        /\ last_call.status = "ok"
        /\ Len(stat_out) = 1
        /\ stat_out[1].is_significant <=>
               RatLess(stat_out[1].p_value, statistical_analyzer.alpha)

\* The band of an effect size: the boundary values belong to the higher band.
Band(effect) ==
    LET size == RatAbs(effect)
    IN IF RatLess(size, <<2, 10>>) THEN "negligible"
       ELSE IF RatLess(size, <<5, 10>>) THEN "small"
       ELSE IF RatLess(size, <<8, 10>>) THEN "medium"
       ELSE "large"

GroupOf(variant) == {k \in 1..Len(test_results) : test_results[k].variant_id = variant}
UsableOf(variant) == {k \in GroupOf(variant) : test_results[k].error = None}

\* C26: t_test_processing_time counts only the entries without a recorded
\* error: it returns the insufficient-data result (statistic 0, p_value 1,
\* not significant) exactly when one of the two groups has fewer than 2
\* such entries, however many errored entries the groups hold.
C26_ErroredLatenciesDropped ==
    last_call.op = "t_test_processing_time" =>
        LET few == \/ Cardinality(UsableOf(last_call.va)) < 2
                   \/ Cardinality(UsableOf(last_call.vb)) < 2
        IN /\ few => (NotComputable /\ stat_out[1].statistic = Zero)
           /\ ~few => ~NotComputable

\* A group of 2 entries, one of them errored, against a group of 2 clean ones.
C26_Witness ==
    /\ last_call.op = "t_test_processing_time"
    /\ Cardinality(GroupOf(last_call.va)) = 2
    /\ Cardinality(UsableOf(last_call.va)) = 1
    /\ Cardinality(UsableOf(last_call.vb)) = 2
    /\ NotComputable

\* C27: a run_single_comparison that returned made two collaborator round
\* trips, one per evaluate_applicant call, whatever the applicant's driving
\* history.
C27_TwoCollaboratorCalls ==
    Returned("run_single_comparison") =>
        llm_calls(last_call.input[1]) + llm_calls(last_call.input[1]) = 2

\* C28: a run_single_comparison call that ends with an error leaves no
\* result of its own in the log: every entry the log holds afterwards was
\* there, at the same position, before the call.
C28_BothOrNothing ==
    [][(last_call'.op = "run_single_comparison" /\ last_call'.status = "raise") =>
          /\ Len(test_results') <= Len(test_results)
          /\ \A k \in 1..Len(test_results') : test_results'[k] = test_results[k]]_vars

\* C29: after a register_test_configuration call, failed or successful, the
\* identifiers that have a configuration are exactly the identifiers that
\* have an engine.
C29_SameIdentifiers ==
    last_call.op = "register_test_configuration" =>
        DOMAIN test_configurations = DOMAIN engines

\* C30: of several 'Decision:' lines, the last one that carries a recognised
\* token decides; 'Decision:' lines after it that carry none leave its
\* decision in place.
C30_LastRecognisedLineWins ==
    Returned("_parse_llm_response") =>
        \A k \in 1..Len(llm_response) :
            (/\ Recognised(llm_response[k])
             /\ \A j \in (k + 1)..Len(llm_response) : ~Recognised(llm_response[j])) =>
                result_out[1].decision =
                    (IF "ACCEPT" \in TokensOf(llm_response[k].words) THEN ACCEPT
                     ELSE IF "DENY" \in TokensOf(llm_response[k].words) THEN DENY
                     ELSE ADJUDICATE)

\* A DENY line followed by a 'Decision:' line with an unknown word.
C30_Witness ==
    /\ Returned("_parse_llm_response")
    /\ llm_response = <<Line("Decision", <<"deny">>), Line("Decision", <<"maybe">>)>>
    /\ result_out[1].decision = DENY

====
